---- MODULE Spec2Model ----
(***************************************************************************)
(* Model of the account-ledger web application (main.py, database.py,      *)
(* models.py): the in-memory store `db` (accounts, sessions), the two      *)
(* documents it rewrites on every save (data.json, sessions.json), and one *)
(* action per request handler.  Each handler is an `async def` without an  *)
(* await, so it runs to completion on the event loop: one action models    *)
(* the whole handler, from get_session to the last save_data.              *)
(*                                                                         *)
(* Strings that the code inspects (usernames) are sequences of characters. *)
(* Time is counted in hours; datetime.now() is the variable `now`.         *)
(* Python's None / a missing file is the empty sequence <<>>, a present    *)
(* value v is <<v>>.                                                       *)
(***************************************************************************)
EXTENDS Integers, Sequences, FiniteSets, TLC

VARIABLES
    accounts,       \* db.accounts: list of dicts (database.py:13)
    sessions,       \* db.sessions: dict session_id -> UserSession (database.py:14)
    dataFile,       \* data.json: <<>> when missing, else <<[accounts |-> ...]>>
    sessionsFile,   \* sessions.json: <<>> when missing, else <<mapping>>
    now,            \* datetime.now(), in hours
    nextToken,      \* the next value uuid.uuid4() returns
    pending         \* the add_payment requests received and not yet answered

vars == <<accounts, sessions, dataFile, sessionsFile, now, nextToken, pending>>

---------------------------------------------------------------------------
(* Bounds of the model *)

MaxAccounts == 2
MaxPayments == 2
MaxTokens == 2
\* Bounds of the ledger under SpecClock, where the clock is finer
ClockMaxAccounts == 1
ClockMaxPayments == 1

(* Inputs the requests are drawn from *)

\* The instants (in hours) at which requests arrive.
Instants == {0, 24}
\* The instants under SpecClock: one hour before and after the 24th hour.
ClockInstants == {0, 1, 23, 24, 25}
TotalAmounts == {-1, 2}
Amounts == {-1, 2}
FormCodes == {"1001", "9999"}
\* "V" stands for the three characters of the viewer sentinel.
VIEWER_USERNAME == <<"V">>
FormUsernames == { <<>>, <<" ">>, <<"\t", " ">>, <<" ", "a", " ">>, VIEWER_USERNAME }

---------------------------------------------------------------------------
(* models.py *)

ACCOUNT_MAPPING ==
    [c \in {"1243", "1001", "1002", "1003", "1004", "1005", "1006", "1007", "1008"} |->
        CASE c = "1243" -> "TaiKang"
          [] c = "1001" -> "PingAn"
          [] c = "1002" -> "GuoShou"
          [] c = "1003" -> "TaiBao"
          [] c = "1004" -> "XinHua"
          [] c = "1005" -> "RenBao"
          [] c = "1006" -> "TaiPing"
          [] c = "1007" -> "HuaTai"
          [] c = "1008" -> "AnBang"]

\* AccountRecord(...).dict(): the seven declared fields, with the defaults
\* paid_amounts = [] and locked = False.
AccountRecord(account_code, account_name, total_amount, manager, created_time) ==
    [account_code |-> account_code,
     account_name |-> account_name,
     total_amount |-> total_amount,
     manager |-> manager,
     created_time |-> created_time,
     paid_amounts |-> <<>>,
     locked |-> FALSE]

\* UserSession(username=..., is_viewer=..., login_time=...)
UserSession(username, is_viewer, login_time) ==
    [username |-> username, is_viewer |-> is_viewer, login_time |-> login_time]

AccountFields ==
    {"account_code", "account_name", "total_amount", "manager", "created_time",
     "paid_amounts", "locked"}

---------------------------------------------------------------------------
(* Python built-ins *)

RECURSIVE sum(_)
sum(s) == IF s = <<>> THEN 0 ELSE Head(s) + sum(Tail(s))

\* str.isspace for one character
IsSpace(c) == c \in {" ", "\t", "\n"}

RECURSIVE lstrip(_)
lstrip(s) == IF s # <<>> /\ IsSpace(Head(s)) THEN lstrip(Tail(s)) ELSE s

\* Mutant of rstrip: trailing whitespace is kept.
rstrip_nothing(s) == s

RECURSIVE rstrip(_)
rstrip(s) ==
    IF s # <<>> /\ IsSpace(s[Len(s)]) THEN rstrip(SubSeq(s, 1, Len(s) - 1)) ELSE s

\* Mutant of strip: the text is taken as typed.
no_strip(s) == s

\* str.strip()
strip(s) == rstrip(lstrip(s))

\* list.pop(index), 0-based
pop(s, index) == SubSeq(s, 1, index) \o SubSeq(s, index + 2, Len(s))

\* del d[k]
del(d, k) == [x \in DOMAIN d \ {k} |-> d[x]]

\* d[k] = v
setitem(d, k, v) == [x \in DOMAIN d \cup {k} |-> IF x = k THEN v ELSE d[x]]

\* timedelta(hours=24), in hours
SESSION_HOURS == 24

---------------------------------------------------------------------------
(* database.py: the store.  A store value is the record                    *)
(*   [accounts, sessions, dataFile, sessionsFile]                          *)
(* and each method maps the store before the call to the store after it.   *)

\* datetime.isoformat: the text of an instant.  UserSession.login_time is a
\* str, in memory as in sessions.json.  A text is a sequence: <<t>> is the
\* text that parses to the instant t, any other sequence is a text that is
\* not a date.
isoformat(t) == <<t>>

\* datetime.fromisoformat succeeds on the texts isoformat writes ...
is_isoformat(text) == Len(text) = 1

\* ... and gives back the instant.
fromisoformat(text) == text[1]

\* A file is <<>> when it does not exist, <<document>> when its text is the
\* JSON of document, and a longer sequence when its text is not JSON.
is_json(file) == Len(file) = 1

\* Database.save_data: both documents are rewritten from memory.
\* json.dump writes every key each dict holds at that moment.
save_data(db) ==
    [db EXCEPT !.dataFile = <<[accounts |-> db.accounts]>>,
               !.sessionsFile = <<db.sessions>>]

\* Mutant of set_remaining_amount: a value already on the dict is kept
\* (dict.setdefault instead of an assignment).
setdefault_remaining_amount(account) ==
    [account_code |-> account.account_code,
     account_name |-> account.account_name,
     total_amount |-> account.total_amount,
     manager |-> account.manager,
     created_time |-> account.created_time,
     paid_amounts |-> account.paid_amounts,
     locked |-> account.locked,
     remaining_amount |->
        IF "remaining_amount" \in DOMAIN account
        THEN account.remaining_amount
        ELSE account.total_amount - sum(account.paid_amounts)]

\* The loop body of get_all_accounts: account['remaining_amount'] = ...
\* assigned on the dict `account`, whatever keys it already holds.
set_remaining_amount(account) ==
    [account_code |-> account.account_code,
     account_name |-> account.account_name,
     total_amount |-> account.total_amount,
     manager |-> account.manager,
     created_time |-> account.created_time,
     paid_amounts |-> account.paid_amounts,
     locked |-> account.locked,
     remaining_amount |-> account.total_amount - sum(account.paid_amounts)]

\* Database.get_all_accounts: self.accounts.copy() copies the list, not the
\* dicts in it, so the loop assigns remaining_amount on the stored dicts
\* themselves: the returned list and self.accounts hold the same dicts.
\* The operator is the returned list; its callers record that db.accounts
\* has become that same list (see listed).
get_all_accounts(accts) ==
    [i \in 1..Len(accts) |-> set_remaining_amount(accts[i])]

\* The store after a call of get_all_accounts (the shared dicts).
listed(db) == [db EXCEPT !.accounts = get_all_accounts(db.accounts)]

\* Mutant of Database.add_account: the record is inserted at the front.
Database_add_account_front(db, account) ==
    save_data([db EXCEPT !.accounts = <<account>> \o db.accounts])

\* Database.add_account
Database_add_account(db, account) ==
    save_data([db EXCEPT !.accounts = Append(db.accounts, account)])

\* Database.delete_account (index is 0-based)
Database_delete_account(db, index) ==
    IF 0 <= index /\ index < Len(db.accounts)
    THEN save_data([db EXCEPT !.accounts = pop(db.accounts, index)])
    ELSE db

\* Mutant of Database.add_paid_amount: the payment is inserted at the front.
Database_add_paid_amount_front(db, index, amount) ==
    IF 0 <= index /\ index < Len(db.accounts)
    THEN save_data([db EXCEPT !.accounts[index + 1].paid_amounts = <<amount>> \o @])
    ELSE db

\* Database.add_paid_amount
Database_add_paid_amount(db, index, amount) ==
    IF 0 <= index /\ index < Len(db.accounts)
    THEN save_data([db EXCEPT !.accounts[index + 1].paid_amounts = Append(@, amount)])
    ELSE db

\* Database.toggle_lock
Database_toggle_lock(db, index, locked) ==
    IF 0 <= index /\ index < Len(db.accounts)
    THEN save_data([db EXCEPT !.accounts[index + 1].locked = locked])
    ELSE db

\* Mutant of is_fresh: a session is still accepted at exactly 24 hours.
is_fresh_inclusive(login_time, current_time) ==
    current_time - login_time <= SESSION_HOURS

\* The test of database.py:36 and main.py:24: now - login_time < 24 hours.
is_fresh(login_time, current_time) == current_time - login_time < SESSION_HOURS

\* The test of database.py:94: current_time - login_time >= 24 hours.
is_expired(login_time, current_time) == current_time - login_time >= SESSION_HOURS

\* Mutant of cleanup_expired_sessions: save_data is called whether or not a
\* session was removed.
cleanup_always_saves(db, current_time) ==
    LET expired_sessions ==
            {sid \in DOMAIN db.sessions :
                is_expired(fromisoformat(db.sessions[sid].login_time), current_time)}
        kept == [sid \in DOMAIN db.sessions \ expired_sessions |-> db.sessions[sid]]
    IN  save_data([db EXCEPT !.sessions = kept])

\* Database.cleanup_expired_sessions
cleanup_expired_sessions(db, current_time) ==
    LET expired_sessions ==
            {sid \in DOMAIN db.sessions :
                is_expired(fromisoformat(db.sessions[sid].login_time), current_time)}
        kept == [sid \in DOMAIN db.sessions \ expired_sessions |-> db.sessions[sid]]
    IN  IF expired_sessions # {}
        THEN save_data([db EXCEPT !.sessions = kept])
        ELSE db

\* database.py:19-25: the accounts of data.json.  json.load raises on a text
\* that is not JSON and the bare except leaves the list empty; a document
\* without the key gives the default of data.get('accounts', []).
load_accounts(data) ==
    IF data = <<>> THEN <<>>
    ELSE IF ~is_json(data) THEN <<>>
    ELSE IF "accounts" \in DOMAIN data[1] THEN data[1].accounts
    ELSE <<>>

\* Mutant of load_sessions: an entry whose login_time is not a date is
\* skipped and the other entries are loaded.
load_sessions_skipping(sessfile, current_time) ==
    IF sessfile = <<>> THEN << >>
    ELSE IF ~is_json(sessfile) THEN << >>
    ELSE LET sessions_data == sessfile[1]
             fresh == {sid \in DOMAIN sessions_data :
                          /\ is_isoformat(sessions_data[sid].login_time)
                          /\ is_fresh(fromisoformat(sessions_data[sid].login_time),
                                      current_time)}
         IN  [sid \in fresh |->
                 UserSession(sessions_data[sid].username,
                             sessions_data[sid].is_viewer,
                             sessions_data[sid].login_time)]

\* database.py:27-39: the sessions of sessions.json.  The loop parses each
\* login_time and keeps the entries less than 24 hours old; an exception
\* anywhere in the try block (json.load, fromisoformat) reaches the bare
\* except, which empties the dict whatever the loop had already put in it.
load_sessions(sessfile, current_time) ==
    IF sessfile = <<>> THEN << >>
    ELSE IF ~is_json(sessfile) THEN << >>
    ELSE LET sessions_data == sessfile[1]
             fresh == {sid \in DOMAIN sessions_data :
                          is_fresh(fromisoformat(sessions_data[sid].login_time),
                                   current_time)}
         IN  IF \E sid \in DOMAIN sessions_data :
                    ~is_isoformat(sessions_data[sid].login_time)
             THEN << >>
             ELSE [sid \in fresh |->
                     UserSession(sessions_data[sid].username,
                                 sessions_data[sid].is_viewer,
                                 sessions_data[sid].login_time)]

\* Database.__init__ followed by load_data, reading the two documents.
load_data(data, sessfile, current_time) ==
    [accounts |-> load_accounts(data),
     sessions |-> load_sessions(sessfile, current_time),
     dataFile |-> data,
     sessionsFile |-> sessfile]

---------------------------------------------------------------------------
(* main.py: the request handlers.  A handler maps the store and the        *)
(* request to an outcome                                                   *)
(*   [db, status, detail, session, accounts]                               *)
(* db: the store after the request; status, detail: the HTTP status and    *)
(* which raise produced it; session: what get_session returned; accounts:  *)
(* the listing handed to the template (index only).                        *)
(* A session_id of 0 is an absent cookie.                                  *)

Outcome(db, status, detail, session, listing) ==
    [db |-> db, status |-> status, detail |-> detail, session |-> session,
     accounts |-> listing]

\* Mutant of get_session: a stored session is returned whatever its age.
get_session_any_age(db, session_id, current_time) ==
    IF session_id # 0 /\ session_id \in DOMAIN db.sessions
    THEN <<db.sessions[session_id]>>
    ELSE <<>>

\* get_session, the returned value: <<session>>, or <<>> for None.
get_session(db, session_id, current_time) ==
    IF session_id # 0 /\ session_id \in DOMAIN db.sessions
    THEN IF is_fresh(fromisoformat(db.sessions[session_id].login_time), current_time)
         THEN <<db.sessions[session_id]>>
         ELSE <<>>
    ELSE <<>>

\* get_session, the store it leaves: an expired session is deleted and both
\* documents are saved.
after_get_session(db, session_id, current_time) ==
    IF /\ session_id # 0
       /\ session_id \in DOMAIN db.sessions
       /\ ~is_fresh(fromisoformat(db.sessions[session_id].login_time), current_time)
    THEN save_data([db EXCEPT !.sessions = del(db.sessions, session_id)])
    ELSE db

\* GET /
index(db, session_id, current_time) ==
    LET db1 == cleanup_expired_sessions(db, current_time)
        session == get_session(db1, session_id, current_time)
        db2 == after_get_session(db1, session_id, current_time)
    IN  IF session = <<>>
        THEN Outcome(db2, 200, "login.html", session, <<>>)
        ELSE Outcome(listed(db2), 200, "index.html", session,
                     get_all_accounts(db2.accounts))

\* POST /login; session_id is the fresh uuid4.
login(db, session_id, username, viewer_mode, current_time) ==
    IF viewer_mode
    THEN Outcome(save_data([db EXCEPT !.sessions =
                     setitem(db.sessions, session_id,
                             UserSession(VIEWER_USERNAME, TRUE, isoformat(current_time)))]),
                 303, "", <<>>, <<>>)
    ELSE IF strip(username) = <<>>
    THEN Outcome(db, 200, "login.html", <<>>, <<>>)
    ELSE Outcome(save_data([db EXCEPT !.sessions =
                     setitem(db.sessions, session_id,
                             UserSession(strip(username), FALSE, isoformat(current_time)))]),
                 303, "", <<>>, <<>>)

\* POST /logout
logout(db, session_id) ==
    IF session_id # 0 /\ session_id \in DOMAIN db.sessions
    THEN Outcome(save_data([db EXCEPT !.sessions = del(db.sessions, session_id)]),
                 303, "", <<>>, <<>>)
    ELSE Outcome(db, 303, "", <<>>, <<>>)

\* POST /add_account
add_account(db, account_code, total_amount, session_id, current_time) ==
    LET session == get_session(db, session_id, current_time)
        db1 == after_get_session(db, session_id, current_time)
    IN  IF session = <<>> \/ session[1].is_viewer
        THEN Outcome(db1, 403, "viewer_cannot_add", session, <<>>)
        ELSE IF account_code \notin DOMAIN ACCOUNT_MAPPING
        THEN Outcome(db1, 400, "invalid_code", session, <<>>)
        ELSE Outcome(Database_add_account(db1,
                        AccountRecord(account_code, ACCOUNT_MAPPING[account_code],
                                      total_amount, session[1].username,
                                      current_time)),
                     303, "", session, <<>>)

\* Mutant of locked_for: the lock shuts the manager out as well.
locked_for_everyone(account, session) == account.locked

\* main.py:140, the lock check of add_payment
locked_for(account, session) ==
    account.locked /\ account.manager # session.username

\* Mutant of exceeds_remaining: the amount is compared with the total, the
\* payments already recorded are forgotten.
exceeds_total(account, amount) == amount > account.total_amount

\* main.py:143-146, the cap check of add_payment
exceeds_remaining(account, amount) ==
    LET total_paid == sum(account.paid_amounts)
        remaining == account.total_amount - total_paid
    IN  amount > remaining

\* POST /add_payment/{account_index}
add_payment(db, account_index, amount, session_id, current_time) ==
    LET session == get_session(db, session_id, current_time)
        db1 == after_get_session(db, session_id, current_time)
        db2 == listed(db1)
        accts == get_all_accounts(db1.accounts)
    IN  IF session = <<>>
        THEN Outcome(db1, 403, "not_logged_in", session, <<>>)
        ELSE IF account_index < 0 \/ account_index >= Len(accts)
        THEN Outcome(db2, 404, "no_account", session, <<>>)
        ELSE IF locked_for(accts[account_index + 1], session[1])
        THEN Outcome(db2, 403, "locked", session, <<>>)
        ELSE IF exceeds_remaining(accts[account_index + 1], amount)
        THEN Outcome(db2, 400, "exceeds_remaining", session, <<>>)
        ELSE Outcome(Database_add_paid_amount(db2, account_index, amount),
                     303, "", session, <<>>)

\* main.py:166, the manager check of toggle_lock
may_toggle(account, session) == account.manager = session.username

\* POST /toggle_lock/{account_index}
toggle_lock(db, account_index, session_id, current_time) ==
    LET session == get_session(db, session_id, current_time)
        db1 == after_get_session(db, session_id, current_time)
        db2 == listed(db1)
        accts == get_all_accounts(db1.accounts)
    IN  IF session = <<>>
        THEN Outcome(db1, 403, "not_logged_in", session, <<>>)
        ELSE IF account_index < 0 \/ account_index >= Len(accts)
        THEN Outcome(db2, 404, "no_account", session, <<>>)
        ELSE IF ~may_toggle(accts[account_index + 1], session[1])
        THEN Outcome(db2, 403, "not_manager", session, <<>>)
        ELSE Outcome(Database_toggle_lock(db2, account_index,
                                          ~accts[account_index + 1].locked),
                     303, "", session, <<>>)

\* main.py:187, the check of delete_account
may_delete(account, session) ==
    ~(account.manager # session.username /\ ~session.is_viewer)

\* POST /delete_account/{account_index}
delete_account(db, account_index, session_id, current_time) ==
    LET session == get_session(db, session_id, current_time)
        db1 == after_get_session(db, session_id, current_time)
        db2 == listed(db1)
        accts == get_all_accounts(db1.accounts)
    IN  IF session = <<>>
        THEN Outcome(db1, 403, "not_logged_in", session, <<>>)
        ELSE IF account_index < 0 \/ account_index >= Len(accts)
        THEN Outcome(db2, 404, "no_account", session, <<>>)
        ELSE IF ~may_delete(accts[account_index + 1], session[1])
        THEN Outcome(db2, 403, "not_manager", session, <<>>)
        ELSE Outcome(Database_delete_account(db2, account_index),
                     303, "", session, <<>>)

---------------------------------------------------------------------------
(* The state machine *)

\* The store as the handlers see it.
db == [accounts |-> accounts, sessions |-> sessions,
       dataFile |-> dataFile, sessionsFile |-> sessionsFile]

\* The number of payments recorded in a list of accounts.
RECURSIVE Payments(_)
Payments(accts) ==
    IF accts = <<>> THEN 0 ELSE Len(Head(accts).paid_amounts) + Payments(Tail(accts))

\* A handler has run: the store becomes the outcome's store.
Respond(outcome) ==
    /\ Len(outcome.db.accounts) <= MaxAccounts
    /\ Payments(outcome.db.accounts) <= MaxPayments
    /\ accounts' = outcome.db.accounts
    /\ sessions' = outcome.db.sessions
    /\ dataFile' = outcome.db.dataFile
    /\ sessionsFile' = outcome.db.sessionsFile

\* The cookies a request may carry: none (0) or a token login has issued.
SessionIds == 0..(nextToken - 1)

\* The indexes a request may carry: those of the list, and one out of range
\* on either side.
AccountIndexes == -1..Len(accounts)

\* The process starts with no documents on disk (database.py:105).
Init ==
    /\ accounts = <<>>
    /\ sessions = <<>>
    /\ dataFile = <<>>
    /\ sessionsFile = <<>>
    /\ now = 0
    /\ nextToken = 1
    /\ pending = {}

Index ==
    \E sid \in SessionIds :
        /\ Respond(index(db, sid, now))
        /\ UNCHANGED <<now, nextToken, pending>>

Login ==
    \E username \in FormUsernames, viewer_mode \in BOOLEAN :
        LET outcome == login(db, nextToken, username, viewer_mode, now)
        IN  /\ nextToken <= MaxTokens
            /\ Respond(outcome)
            /\ nextToken' = IF outcome.status = 303 THEN nextToken + 1 ELSE nextToken
            /\ UNCHANGED <<now, pending>>

Logout ==
    \E sid \in SessionIds :
        /\ Respond(logout(db, sid))
        /\ UNCHANGED <<now, nextToken, pending>>

AddAccount ==
    \E sid \in SessionIds, code \in FormCodes, total \in TotalAmounts :
        /\ Respond(add_account(db, code, total, sid, now))
        /\ UNCHANGED <<now, nextToken, pending>>

AddPayment ==
    \E sid \in SessionIds, i \in AccountIndexes, amount \in Amounts :
        /\ Respond(add_payment(db, i, amount, sid, now))
        /\ UNCHANGED <<now, nextToken, pending>>

ToggleLock ==
    \E sid \in SessionIds, i \in AccountIndexes :
        /\ Respond(toggle_lock(db, i, sid, now))
        /\ UNCHANGED <<now, nextToken, pending>>

DeleteAccount ==
    \E sid \in SessionIds, i \in AccountIndexes :
        /\ Respond(delete_account(db, i, sid, now))
        /\ UNCHANGED <<now, nextToken, pending>>

\* The process is restarted: `db = Database()` loads the two documents.
Restart ==
    LET loaded == load_data(dataFile, sessionsFile, now)
    IN  /\ accounts' = loaded.accounts
        /\ sessions' = loaded.sessions
        /\ pending' = {}
        /\ UNCHANGED <<dataFile, sessionsFile, now, nextToken>>

\* Time passes between requests.
Tick ==
    \E t \in Instants :
        /\ t > now
        /\ now' = t
        /\ UNCHANGED <<accounts, sessions, dataFile, sessionsFile, nextToken, pending>>

Next ==
    \/ Index
    \/ Login
    \/ Logout
    \/ AddAccount
    \/ AddPayment
    \/ ToggleLock
    \/ DeleteAccount
    \/ Restart
    \/ Tick

Spec == Init /\ [][Next]_vars

\* The same program on a finer clock, with a smaller ledger.
ClockTick ==
    \E t \in ClockInstants :
        /\ t > now
        /\ now' = t
        /\ UNCHANGED <<accounts, sessions, dataFile, sessionsFile, nextToken, pending>>

\* The ledger stays within the bounds of SpecClock.
SmallLedger ==
    /\ Len(accounts) <= ClockMaxAccounts
    /\ Payments(accounts) <= ClockMaxPayments

ClockNext ==
    \/ Index /\ SmallLedger'
    \/ Login /\ SmallLedger'
    \/ Logout /\ SmallLedger'
    \/ AddAccount /\ SmallLedger'
    \/ AddPayment /\ SmallLedger'
    \/ ToggleLock /\ SmallLedger'
    \/ DeleteAccount /\ SmallLedger'
    \/ Restart /\ SmallLedger'
    \/ ClockTick

SpecClock == Init /\ [][ClockNext]_vars

---------------------------------------------------------------------------
(* Properties.  A property of a handler is stated for every request the    *)
(* handler can receive in every reachable state: the handler's outcome for *)
(* that request is what the action installs.                               *)

\* The seven declared fields of a stored record.
declared(account) ==
    [account_code |-> account.account_code,
     account_name |-> account.account_name,
     total_amount |-> account.total_amount,
     manager |-> account.manager,
     created_time |-> account.created_time,
     paid_amounts |-> account.paid_amounts,
     locked |-> account.locked]

declared_all(accts) == [i \in 1..Len(accts) |-> declared(accts[i])]

\* total_amount - sum(paid_amounts) of a stored record
remaining_of(account) == account.total_amount - sum(account.paid_amounts)

InRange == 0..(Len(accounts) - 1)

\* C1: every account against which a payment has been admitted (its
\* paid_amounts is not empty: only an admitted add_payment appends to it)
\* satisfies sum(paid_amounts) <= total_amount, in the state right after the
\* payment and in every later state.
C1_PaymentCap ==
    \A i \in 1..Len(accounts) :
        accounts[i].paid_amounts # <<>> =>
            sum(accounts[i].paid_amounts) <= accounts[i].total_amount

\* C1 witness: two payments were admitted against one account and the cap
\* binds: a further payment of some form amount would exceed the total.
C1_Witness ==
    \E i \in 1..Len(accounts), amount \in Amounts :
        /\ Len(accounts[i].paid_amounts) = 2
        /\ sum(accounts[i].paid_amounts) + amount > accounts[i].total_amount

\* C2 as stated: with a resolved session and an index in range, add_payment
\* is rejected exactly when amount > remaining, and a rejected add_payment
\* leaves db.accounts unchanged.
C2_RejectedIffExceeds ==
    \A sid \in SessionIds, i \in InRange, amount \in Amounts :
        LET o == add_payment(db, i, amount, sid, now)
        IN  o.session # <<>> =>
                /\ (o.status # 303) <=> (amount > remaining_of(accounts[i + 1]))
                /\ o.status # 303 => o.db.accounts = accounts

\* C2 amended: with a resolved session and an index in range, add_payment is
\* rejected exactly when the account is locked and the session's username is
\* not its manager, or amount > remaining; a rejected add_payment records no
\* payment and changes no declared field of any record.
C2_RejectedIffLockedOrExceeds ==
    \A sid \in SessionIds, i \in InRange, amount \in Amounts :
        LET o == add_payment(db, i, amount, sid, now)
            a == accounts[i + 1]
        IN  o.session # <<>> =>
                /\ (o.status # 303) <=>
                      \/ a.locked /\ a.manager # o.session[1].username
                      \/ amount > remaining_of(a)
                /\ o.status # 303 =>
                      declared_all(o.db.accounts) = declared_all(accounts)

\* C2 witness: an account has a payment recorded, a further payment on it is
\* rejected for exceeding what remains, and some payment within the cap is
\* rejected because the account is locked by another user.
C2_Witness ==
    /\ \E sid \in SessionIds, i \in InRange, amount \in Amounts :
          /\ accounts[i + 1].paid_amounts # <<>>
          /\ add_payment(db, i, amount, sid, now).detail = "exceeds_remaining"
    /\ \E sid \in SessionIds, i \in InRange, amount \in Amounts :
          /\ amount <= remaining_of(accounts[i + 1])
          /\ add_payment(db, i, amount, sid, now).detail = "locked"

\* C3 as stated: no record of the accounts document carries a
\* remaining_amount key, and every stored record holds the seven declared
\* fields only.
C3_RemainingNeverPersisted ==
    /\ \A i \in 1..Len(accounts) : DOMAIN accounts[i] = AccountFields
    /\ dataFile # <<>> =>
          \A i \in 1..Len(dataFile[1].accounts) :
              "remaining_amount" \notin DOMAIN dataFile[1].accounts[i]

\* C4 as stated: no toggle_lock of a viewer session succeeds, and no account
\* has the viewer sentinel as its manager.
C4_ViewerNeverToggles ==
    /\ \A sid \in SessionIds, i \in AccountIndexes :
          LET o == toggle_lock(db, i, sid, now)
          IN  (o.session # <<>> /\ o.session[1].is_viewer) => o.status # 303
    /\ \A i \in 1..Len(accounts) : accounts[i].manager # VIEWER_USERNAME

\* C5 as stated: with a resolved session and an index in range, toggle_lock
\* succeeds exactly when the session's username is the account's manager; on
\* success locked is negated and nothing else in db.accounts changes; on
\* failure the status is 403 and db.accounts is unchanged.
C5_ToggleLock ==
    \A sid \in SessionIds, i \in InRange :
        LET o == toggle_lock(db, i, sid, now)
        IN  o.session # <<>> =>
                /\ (o.status = 303) <=>
                      (o.session[1].username = accounts[i + 1].manager)
                /\ o.status = 303 =>
                      o.db.accounts = [accounts EXCEPT ![i + 1].locked = ~@]
                /\ o.status # 303 => o.status = 403 /\ o.db.accounts = accounts

\* C6 as stated: with a resolved session and an index in range,
\* delete_account succeeds exactly when the session's username is the
\* account's manager or the session is a viewer, whatever locked is; on
\* failure the status is 403 and db.accounts is unchanged.
C6_Delete ==
    \A sid \in SessionIds, i \in InRange :
        LET o == delete_account(db, i, sid, now)
        IN  o.session # <<>> =>
                /\ (o.status = 303) <=>
                      \/ o.session[1].username = accounts[i + 1].manager
                      \/ o.session[1].is_viewer
                /\ o.status # 303 => o.status = 403 /\ o.db.accounts = accounts

\* C8 as stated: on a locked account, add_payment by a session whose username
\* is not the manager is answered 403 and changes nothing, and add_payment
\* within the cap by the manager is admitted; on an unlocked account a
\* payment within the cap is admitted for every resolved session.
C8_LockedPayments ==
    \A sid \in SessionIds, i \in InRange, amount \in Amounts :
        LET o == add_payment(db, i, amount, sid, now)
            a == accounts[i + 1]
        IN  o.session # <<>> =>
                /\ (a.locked /\ o.session[1].username # a.manager) =>
                      /\ o.status = 403
                      /\ o.db.accounts = accounts
                      /\ o.db.dataFile = dataFile
                /\ (a.locked /\ o.session[1].username = a.manager
                        /\ amount <= remaining_of(a)) =>
                      o.status = 303
                /\ (~a.locked /\ amount <= remaining_of(a)) => o.status = 303

\* C9: add_account with a resolved session answers 403 for a viewer (before
\* the code is looked at), 400 for a code that is no key of ACCOUNT_MAPPING,
\* and appends nothing in both cases; otherwise it appends one record at the
\* end, with manager the session's username, account_name the mapping's name,
\* no payments and locked false, and leaves the existing records unchanged.
C9_Create ==
    \A sid \in SessionIds, code \in FormCodes, total \in TotalAmounts :
        LET o == add_account(db, code, total, sid, now)
        IN  o.session # <<>> =>
                IF o.session[1].is_viewer
                THEN o.status = 403 /\ o.db.accounts = accounts
                ELSE IF code \notin DOMAIN ACCOUNT_MAPPING
                THEN o.status = 400 /\ o.db.accounts = accounts
                ELSE /\ o.status = 303
                     /\ Len(o.db.accounts) = Len(accounts) + 1
                     /\ SubSeq(o.db.accounts, 1, Len(accounts)) = accounts
                     /\ o.db.accounts[Len(accounts) + 1] =
                           [account_code |-> code,
                            account_name |-> ACCOUNT_MAPPING[code],
                            total_amount |-> total,
                            manager |-> o.session[1].username,
                            created_time |-> now,
                            paid_amounts |-> <<>>,
                            locked |-> FALSE]

\* C9 witness: two records were created, the first has changed since (a
\* payment), and a viewer session is resolvable.
C9_Witness ==
    /\ Len(accounts) = 2
    /\ accounts[1].paid_amounts # <<>>
    /\ accounts[2].paid_amounts = <<>>
    /\ \E sid \in SessionIds :
          LET session == get_session(db, sid, now)
          IN  session # <<>> /\ session[1].is_viewer

\* C10: in every listing the index page produces, each account's
\* remaining_amount is its total_amount minus the sum of its current
\* paid_amounts.
C10_ListingRemaining ==
    \A sid \in SessionIds :
        LET o == index(db, sid, now)
        IN  o.session # <<>> =>
                /\ Len(o.accounts) = Len(accounts)
                /\ \A i \in 1..Len(accounts) :
                      /\ o.accounts[i].remaining_amount = remaining_of(accounts[i])
                      /\ declared(o.accounts[i]) = declared(accounts[i])

\* C10 witness: a session is resolvable while a stored record carries a
\* remaining_amount computed before its last payment.
C10_Witness ==
    /\ \E sid \in SessionIds : get_session(db, sid, now) # <<>>
    /\ \E i \in 1..Len(accounts) :
          /\ "remaining_amount" \in DOMAIN accounts[i]
          /\ accounts[i].remaining_amount # remaining_of(accounts[i])

\* What get_session returns for a session_id, over every handler that
\* calls it.
Resolved(sid) ==
    {get_session(db, sid, now),
     index(db, sid, now).session,
     add_account(db, "1001", 2, sid, now).session,
     add_payment(db, 0, 2, sid, now).session,
     toggle_lock(db, 0, sid, now).session,
     delete_account(db, 0, sid, now).session}

\* A stored session is resolved at every time it is less than 24 hours old
\* and at no time it is 24 hours old or older.
C7_ResolveBoundary ==
    \A sid \in SessionIds :
        /\ sid \in DOMAIN sessions =>
              IF now - fromisoformat(sessions[sid].login_time) < 24
              THEN Resolved(sid) = {<<sessions[sid]>>}
              ELSE Resolved(sid) = {<<>>}
        /\ sid \notin DOMAIN sessions => Resolved(sid) = {<<>>}

\* A step that is not the logout of a session keeps every stored session
\* that is less than 24 hours old when the step ends (whether the step is a
\* handler with its lazy expiry, the sweep of the index page, or a restart
\* with its filtering load), and what a step keeps it keeps unchanged.
C7_FreshKept ==
    \A sid \in DOMAIN sessions :
        /\ sid \in DOMAIN sessions' => sessions'[sid] = sessions[sid]
        /\ (now' - fromisoformat(sessions[sid].login_time) < 24
                /\ sid \notin DOMAIN sessions') =>
              /\ sessions' = del(sessions, sid)
              /\ sessions' = logout(db, sid).db.sessions
              /\ sessionsFile' = <<sessions'>>
              /\ UNCHANGED <<accounts, now, nextToken>>

\* C7: a session with login_time T is returned by get_session at every time t
\* with t - T < 24 hours and at no time t with t - T >= 24 hours, whether the
\* filtering load, the lazy expiry or the sweep has run in between; nothing
\* but logout removes a session that is less than 24 hours old.
C7_SessionExpiry == []C7_ResolveBoundary /\ [][C7_FreshKept]_vars

\* C7 witness: at the 24th hour a restart has dropped a session that had
\* turned 24 hours old (the document still lists it) and has kept one that
\* is 23 hours old.
C7_Witness ==
    /\ now = 24
    /\ sessionsFile # <<>>
    /\ \E old \in DOMAIN sessionsFile[1], young \in DOMAIN sessions :
          /\ old \notin DOMAIN sessions
          /\ now - fromisoformat(sessionsFile[1][old].login_time) = 24
          /\ now - fromisoformat(sessions[young].login_time) = 23
          /\ get_session(db, young, now) = <<sessions[young]>>

---------------------------------------------------------------------------
(* C11 *)

\* A text made of whitespace characters only (the empty text included).
OnlyWhitespace(s) == \A k \in 1..Len(s) : s[k] \in {" ", "\t", "\n"}

\* C11: a login with viewer_mode false and an empty or whitespace-only
\* username creates no session: the store, both documents included, is
\* unchanged, the login page is rendered again and no token is issued; a
\* login with viewer_mode true creates a session whatever the username is.
C11_Login ==
    \A username \in FormUsernames :
        LET plain == login(db, nextToken, username, FALSE, now)
            viewer == login(db, nextToken, username, TRUE, now)
        IN  /\ OnlyWhitespace(username) =>
                  /\ plain.db = db
                  /\ plain.status = 200
                  /\ plain.detail = "login.html"
                  /\ plain.session = <<>>
            /\ ~OnlyWhitespace(username) =>
                  /\ plain.status = 303
                  /\ nextToken \in DOMAIN plain.db.sessions
            /\ viewer.status = 303
            /\ DOMAIN viewer.db.sessions = DOMAIN sessions \cup {nextToken}
            /\ viewer.db.sessions[nextToken] =
                  UserSession(VIEWER_USERNAME, TRUE, isoformat(now))
            /\ viewer.db.sessionsFile # <<>>
            /\ nextToken \in DOMAIN viewer.db.sessionsFile[1]

\* A login step issues a token exactly when it stores a session.
C11_TokenWithSession ==
    (nextToken' # nextToken) <=>
        (\E sid \in DOMAIN sessions' : sid \notin DOMAIN sessions)

\* C11 (whole): the outcome of every login request, and no token without a
\* session in any step.
C11_EmptyUsername == []C11_Login /\ [][C11_TokenWithSession]_vars

\* C11 witness: a viewer session has been created, and a further login with
\* a whitespace-only username is possible and leaves the store as it is.
C11_Witness ==
    /\ \E sid \in DOMAIN sessions : sessions[sid].is_viewer
    /\ nextToken <= MaxTokens
    /\ login(db, nextToken, <<"\t", " ">>, FALSE, now).db = db

---------------------------------------------------------------------------
(* C12 *)

\* The stored sessions that are 24 hours old or older.
ExpiredNow ==
    {sid \in DOMAIN sessions : now - fromisoformat(sessions[sid].login_time) >= 24}

\* C12: at one clock reading, the sweep followed by the resolution of a token
\* and the resolution followed by the sweep end in the same store (session
\* collection and both documents) and resolve the token to the same result.
\* The operation that runs second on an expired entry the first one removed
\* is a no-op: a resolution after the sweep leaves the store, documents
\* included, as the sweep left it, and a sweep after the resolution does so
\* too when the token's entry was the only expired one (it removes exactly
\* the other expired entries otherwise).
C12_ExpiryCommutes ==
    \A sid \in SessionIds :
        LET swept == cleanup_expired_sessions(db, now)
            swept_resolved == after_get_session(swept, sid, now)
            resolved == after_get_session(db, sid, now)
            resolved_swept == cleanup_expired_sessions(resolved, now)
        IN  /\ swept_resolved = resolved_swept
            /\ get_session(swept, sid, now) = get_session(db, sid, now)
            /\ swept_resolved = swept
            /\ ExpiredNow \subseteq {sid} => resolved_swept = resolved
            /\ DOMAIN resolved_swept.sessions = DOMAIN sessions \ ExpiredNow
            /\ get_session(resolved_swept, sid, now) = get_session(db, sid, now)

\* C12 witness: two sessions have expired and are still stored, and the
\* accounts in memory differ from data.json, so that a write by either
\* operation would show in the document.
C12_Witness ==
    /\ Cardinality(ExpiredNow) = 2
    /\ dataFile # <<>>
    /\ dataFile[1].accounts # accounts

---------------------------------------------------------------------------
(* C13 *)

\* The stored sessions that are less than 24 hours old.
FreshSessions ==
    [sid \in {s \in DOMAIN sessions :
                 now - fromisoformat(sessions[s].login_time) < 24} |-> sessions[sid]]

\* C13: between operations the two documents reflect the collections in
\* memory: a restart at that point loads the accounts collection exactly as
\* it is in memory, in the same order, and loads exactly the sessions that
\* are less than 24 hours old.
C13_RestartRoundTrip ==
    LET loaded == load_data(dataFile, sessionsFile, now)
    IN  /\ loaded.accounts = accounts
        /\ loaded.sessions = FreshSessions

\* What holds of the restart: the declared fields of every account, the
\* order, and the sessions less than 24 hours old are restored.
C13_DeclaredRoundTrip ==
    LET loaded == load_data(dataFile, sessionsFile, now)
    IN  /\ declared_all(loaded.accounts) = declared_all(accounts)
        /\ loaded.sessions = FreshSessions

---------------------------------------------------------------------------
(* C14 *)

\* The fields of a record that no operation assigns after its creation.
identity_of(account) ==
    [account_code |-> account.account_code,
     account_name |-> account.account_name,
     total_amount |-> account.total_amount,
     manager |-> account.manager,
     created_time |-> account.created_time]

\* The record `after` is the record `before` one step later: the five
\* fields are the same and paid_amounts is the same or has one more element
\* at its end.
SameRecord(before, after) ==
    /\ identity_of(after) = identity_of(before)
    /\ Len(after.paid_amounts) \in
            {Len(before.paid_amounts), Len(before.paid_amounts) + 1}
    /\ SubSeq(after.paid_amounts, 1, Len(before.paid_amounts)) = before.paid_amounts

\* The records of `after` are, position by position, the records of `before`.
SameRecords(before, after) ==
    /\ Len(after) = Len(before)
    /\ \A i \in 1..Len(before) : SameRecord(before[i], after[i])

\* One step of the program, seen from the records: every record stays, or
\* one is created at the end, or one is deleted; a record that stays keeps
\* its five fields and at most one record gains a payment.
C14_Step ==
    \/ /\ SameRecords(accounts, accounts')
       /\ Payments(accounts') \in {Payments(accounts), Payments(accounts) + 1}
    \/ /\ Len(accounts') = Len(accounts) + 1
       /\ SameRecords(accounts, SubSeq(accounts', 1, Len(accounts)))
       /\ Payments(accounts') = Payments(accounts)
    \/ \E i \in 0..(Len(accounts) - 1) :
          /\ SameRecords(pop(accounts, i), accounts')
          /\ Payments(accounts') = Payments(pop(accounts, i))

\* C14: from its creation to its deletion a record keeps its account_code,
\* account_name, total_amount, manager and created_time, and its
\* paid_amounts changes only by one element appended at the end: the list
\* before a step is a prefix of the list after it.
C14_RecordImmutable == [][C14_Step]_vars

\* C14 witness: a record has received two different payments, one after the
\* other.
C14_Witness ==
    \E i \in 1..Len(accounts) :
        /\ Len(accounts[i].paid_amounts) = 2
        /\ accounts[i].paid_amounts[1] # accounts[i].paid_amounts[2]

---------------------------------------------------------------------------
(* C15 *)

\* The token is in the session store and its session is less than 24 hours
\* old.
Live(sid) ==
    /\ sid \in DOMAIN sessions
    /\ now - fromisoformat(sessions[sid].login_time) < 24

\* The outcomes of the four ledger requests a client can send with a token.
LedgerOutcomes(sid) ==
    {add_account(db, code, total, sid, now) :
        code \in FormCodes, total \in TotalAmounts}
    \cup {add_payment(db, i, amount, sid, now) :
        i \in AccountIndexes, amount \in Amounts}
    \cup {toggle_lock(db, i, sid, now) : i \in AccountIndexes}
    \cup {delete_account(db, i, sid, now) : i \in AccountIndexes}

\* A ledger request is admitted only under a live token; under a token that
\* is not live it is answered 403 and the accounts are as they were.
C15_Authorized ==
    \A sid \in SessionIds : \A o \in LedgerOutcomes(sid) :
        /\ o.status = 303 => Live(sid)
        /\ o.db.accounts # accounts => Live(sid)
        /\ ~Live(sid) =>
              /\ o.status = 403
              /\ o.db.accounts = accounts

\* A token that has been issued and is not live is not live after any step.
C15_StaysDead ==
    \A sid \in 1..(nextToken - 1) :
        ~Live(sid) =>
            ~(/\ sid \in DOMAIN sessions'
              /\ now' - fromisoformat(sessions'[sid].login_time) < 24)

\* C15: every admitted ledger mutation is made under a token that is in the
\* session store with age below 24 hours at that moment; once a token has
\* been logged out, or its session has reached 24 hours, every later
\* mutation request that carries it is answered 403 and leaves the accounts
\* unchanged.
C15_TokenStops == []C15_Authorized /\ [][C15_StaysDead]_vars

\* C15 witness: an account exists, one issued token has been logged out and
\* another is still stored at 24 hours of age; a payment request under
\* either is answered 403.
C15_Witness ==
    /\ Len(accounts) > 0
    /\ \E gone \in 1..(nextToken - 1), old \in DOMAIN sessions :
          /\ gone \notin DOMAIN sessions
          /\ sessionsFile # <<>>
          /\ gone \notin DOMAIN sessionsFile[1]
          /\ now - fromisoformat(sessions[old].login_time) >= 24
          /\ add_payment(db, 0, 2, gone, now).status = 403
          /\ add_payment(db, 0, 2, old, now).status = 403

---------------------------------------------------------------------------
(* C16: the program started on documents it did not write *)

\* A file whose text is not JSON (a truncated write).
NotJson == <<"{", "\"acc">>

\* Entries of sessions.json: a session that logged in at hour t, and one
\* whose login_time is the empty text.
StoredSession(t) == UserSession(<<"a">>, FALSE, isoformat(t))
MalformedSession == UserSession(<<"a">>, FALSE, <<>>)

\* The data.json files a new process may find.
DataDocuments ==
    { <<>>,
      NotJson,
      <<[version |-> 1]>>,
      <<[accounts |-> <<>>]>>,
      <<[accounts |-> <<AccountRecord("1001", ACCOUNT_MAPPING["1001"], 2, <<"a">>, 0)>>]>> }

\* The sessions.json files a new process may find.
SessionDocuments ==
    { <<>>,
      NotJson,
      << << >> >>,
      << <<StoredSession(0)>> >>,
      << <<StoredSession(0), StoredSession(1)>> >>,
      << <<MalformedSession>> >>,
      << <<StoredSession(1), MalformedSession>> >>,
      << <<MalformedSession, StoredSession(1)>> >> }

\* `db = Database()` on any of these files, at any hour.
LoadInit ==
    \E data \in DataDocuments, sessfile \in SessionDocuments, t \in ClockInstants :
        LET loaded == load_data(data, sessfile, t)
        IN  /\ accounts = loaded.accounts
            /\ sessions = loaded.sessions
            /\ dataFile = data
            /\ sessionsFile = sessfile
            /\ now = t
            /\ nextToken = MaxTokens + 1
            /\ pending = {}

LoadNext ==
    \/ Restart
    \/ ClockTick
    \/ Index
    \/ Logout

SpecLoad == LoadInit /\ [][LoadNext]_vars

\* sessions.json is JSON and one of its entries has a login_time that is not
\* a date.
HasMalformedEntry(sessfile) ==
    /\ Len(sessfile) = 1
    /\ \E sid \in DOMAIN sessfile[1] : Len(sessfile[1][sid].login_time) # 1

\* C16: load_data gives a store for every pair of files: the accounts are
\* empty when data.json is missing or is not JSON, the sessions are empty
\* when sessions.json is missing, is not JSON or holds an entry with a
\* malformed login_time, and what is loaded from one file does not depend on
\* the other file.  (A file that parses gives its accounts, and its sessions
\* less than 24 hours old.)
C16_LoadNeverFails ==
    LET loaded == load_data(dataFile, sessionsFile, now)
    IN  /\ (dataFile = <<>> \/ dataFile = NotJson) => loaded.accounts = <<>>
        /\ (sessionsFile = <<>> \/ sessionsFile = NotJson
                \/ HasMalformedEntry(sessionsFile)) => loaded.sessions = << >>
        /\ \A sessfile \in SessionDocuments :
              load_data(dataFile, sessfile, now).accounts = loaded.accounts
        /\ \A data \in DataDocuments :
              load_data(data, sessionsFile, now).sessions = loaded.sessions
        /\ (Len(dataFile) = 1 /\ "accounts" \in DOMAIN dataFile[1]) =>
              loaded.accounts = dataFile[1].accounts
        /\ (Len(sessionsFile) = 1 /\ ~HasMalformedEntry(sessionsFile)) =>
              /\ \A sid \in DOMAIN loaded.sessions :
                    /\ sid \in DOMAIN sessionsFile[1]
                    /\ loaded.sessions[sid] = sessionsFile[1][sid]
              /\ \A sid \in DOMAIN sessionsFile[1] :
                    sid \in DOMAIN loaded.sessions <=>
                        now - sessionsFile[1][sid].login_time[1] < 24

\* C16 witness: the process has started on a data.json that holds an account
\* and a sessions.json whose first entry is less than 24 hours old and whose
\* second entry has a malformed login_time: the account is loaded and no
\* session is.
C16_Witness ==
    /\ sessionsFile = << <<StoredSession(1), MalformedSession>> >>
    /\ now = 23
    /\ Len(dataFile) = 1
    /\ "accounts" \in DOMAIN dataFile[1]
    /\ accounts = dataFile[1].accounts
    /\ Len(accounts) = 1
    /\ sessions = << >>

---------------------------------------------------------------------------
(* C17 *)

\* Indexes outside the listing, below and above.
OutOfRange == {-1, Len(accounts)}

\* The order of the checks: no session precedes no account, no account
\* precedes the authorization checks, and for add_payment the lock precedes
\* the remaining amount.
C17_Precedence ==
    \A sid \in SessionIds :
        /\ \A i \in AccountIndexes, amount \in Amounts :
              get_session(db, sid, now) = <<>> =>
                  /\ add_payment(db, i, amount, sid, now).status = 403
                  /\ toggle_lock(db, i, sid, now).status = 403
                  /\ delete_account(db, i, sid, now).status = 403
        /\ \A i \in OutOfRange, amount \in Amounts :
              get_session(db, sid, now) # <<>> =>
                  /\ add_payment(db, i, amount, sid, now).status = 404
                  /\ toggle_lock(db, i, sid, now).status = 404
                  /\ delete_account(db, i, sid, now).status = 404
        /\ \A i \in InRange, amount \in Amounts :
              (/\ get_session(db, sid, now) # <<>>
               /\ accounts[i + 1].locked
               /\ accounts[i + 1].manager # get_session(db, sid, now)[1].username) =>
                  /\ add_payment(db, i, amount, sid, now).status = 403
                  /\ add_payment(db, i, amount, sid, now).detail = "locked"

\* The failures C17 names: a 403 or 404 of the three handlers, and a 400 of
\* add_payment.
C17_Failures(sid) ==
    {o \in {add_payment(db, i, amount, sid, now) :
                i \in AccountIndexes, amount \in Amounts}
           \cup {toggle_lock(db, i, sid, now) : i \in AccountIndexes}
           \cup {delete_account(db, i, sid, now) : i \in AccountIndexes} :
        o.status # 303}

\* C17: an unresolved session gives 403 even when the index is out of range;
\* with a resolved session an out-of-range index gives 404 before any
\* authorization check; add_payment answers locked-by-another (403) before
\* exceeds-remaining (400); and every such failure leaves the accounts
\* collection unchanged.
C17_ErrorPrecedence ==
    /\ C17_Precedence
    /\ \A sid \in SessionIds : \A o \in C17_Failures(sid) : o.db.accounts = accounts

\* What holds of the failures: the declared fields of every record are
\* unchanged.
C17_FailuresKeepDeclared ==
    /\ C17_Precedence
    /\ \A sid \in SessionIds : \A o \in C17_Failures(sid) :
          declared_all(o.db.accounts) = declared_all(accounts)

---------------------------------------------------------------------------
(* C18 *)

\* C18: the listing is in storage order; a successful add_account appends at
\* the end and leaves the other records as they were; a successful
\* delete_account(i) removes exactly the record at position i and keeps the
\* order and the contents of all the others (positions below i stay,
\* positions above i shift down by one); add_payment and toggle_lock never
\* move a record.
C18_PositionalAddressing ==
    \A sid \in SessionIds :
        /\ LET o == index(db, sid, now)
           IN  o.session # <<>> =>
                  /\ Len(o.accounts) = Len(accounts)
                  /\ \A k \in 1..Len(accounts) :
                        declared(o.accounts[k]) = declared(accounts[k])
        /\ \A code \in FormCodes, total \in TotalAmounts :
              LET o == add_account(db, code, total, sid, now)
              IN  o.status = 303 =>
                     /\ Len(o.db.accounts) = Len(accounts) + 1
                     /\ SubSeq(o.db.accounts, 1, Len(accounts)) = accounts
        /\ \A i \in AccountIndexes :
              LET o == delete_account(db, i, sid, now)
              IN  o.status = 303 =>
                     /\ Len(o.db.accounts) = Len(accounts) - 1
                     /\ \A k \in 1..Len(accounts) :
                           /\ k < i + 1 => o.db.accounts[k] = accounts[k]
                           /\ k > i + 1 => o.db.accounts[k - 1] = accounts[k]
        /\ \A i \in AccountIndexes, amount \in Amounts :
              LET p == add_payment(db, i, amount, sid, now)
                  t == toggle_lock(db, i, sid, now)
              IN  /\ Len(p.db.accounts) = Len(accounts)
                  /\ Len(t.db.accounts) = Len(accounts)
                  /\ \A k \in 1..Len(accounts) :
                        /\ identity_of(p.db.accounts[k]) = identity_of(accounts[k])
                        /\ identity_of(t.db.accounts[k]) = identity_of(accounts[k])

\* What holds of the positions: the same statement with the contents of the
\* surviving records compared on their declared fields.
C18_DeclaredPositions ==
    \A sid \in SessionIds :
        /\ LET o == index(db, sid, now)
           IN  o.session # <<>> =>
                  /\ Len(o.accounts) = Len(accounts)
                  /\ \A k \in 1..Len(accounts) :
                        declared(o.accounts[k]) = declared(accounts[k])
        /\ \A code \in FormCodes, total \in TotalAmounts :
              LET o == add_account(db, code, total, sid, now)
              IN  o.status = 303 =>
                     /\ Len(o.db.accounts) = Len(accounts) + 1
                     /\ SubSeq(o.db.accounts, 1, Len(accounts)) = accounts
        /\ \A i \in AccountIndexes :
              LET o == delete_account(db, i, sid, now)
              IN  o.status = 303 =>
                     /\ Len(o.db.accounts) = Len(accounts) - 1
                     /\ \A k \in 1..Len(accounts) :
                           /\ k < i + 1 =>
                                 declared(o.db.accounts[k]) = declared(accounts[k])
                           /\ k > i + 1 =>
                                 declared(o.db.accounts[k - 1]) = declared(accounts[k])
        /\ \A i \in AccountIndexes, amount \in Amounts :
              LET p == add_payment(db, i, amount, sid, now)
                  t == toggle_lock(db, i, sid, now)
              IN  /\ Len(p.db.accounts) = Len(accounts)
                  /\ Len(t.db.accounts) = Len(accounts)
                  /\ \A k \in 1..Len(accounts) :
                        /\ identity_of(p.db.accounts[k]) = identity_of(accounts[k])
                        /\ identity_of(t.db.accounts[k]) = identity_of(accounts[k])

---------------------------------------------------------------------------
(* Overlapping add_payment requests.  The server has received a request when
   the framework has parsed it and scheduled the handler coroutine; the
   coroutine then runs on the event loop until it awaits or returns.       *)

MaxPending == 2
OverlapMaxAccounts == 1
OverlapMaxTokens == 1

\* Mutant of await_before_append: the handler yields to the event loop
\* between its checks and db.add_paid_amount.
await_inserted == TRUE

\* main.py:123-150: the body of `async def add_payment` holds no await
\* expression, so the coroutine does not yield between get_session (line 125)
\* and db.add_paid_amount (line 149).
await_before_append == FALSE

\* The connections on which no request is in flight.
FreeConnections == (1..MaxPending) \ {r.conn : r \in pending}

\* A POST /add_payment/{account_index} arrives.
Receive ==
    \E conn \in FreeConnections, sid \in SessionIds,
       i \in AccountIndexes, amount \in Amounts :
        /\ pending' = pending \cup
              {[conn |-> conn, session_id |-> sid, account_index |-> i,
                amount |-> amount, checked |-> FALSE]}
        /\ UNCHANGED <<accounts, sessions, dataFile, sessionsFile, now, nextToken>>

\* The event loop runs the coroutine of a received request up to its next
\* suspension point or to its end.  `checked` is the position of a coroutine
\* suspended after its checks.
RunAddPayment ==
    \E r \in pending :
        LET o == add_payment(db, r.account_index, r.amount, r.session_id, now)
        IN  /\ IF r.checked
               THEN /\ Respond(Outcome(
                          Database_add_paid_amount(db, r.account_index, r.amount),
                          303, "", <<>>, <<>>))
                    /\ pending' = pending \ {r}
               ELSE IF await_before_append /\ o.status = 303
               THEN /\ Respond(Outcome(
                          listed(after_get_session(db, r.session_id, now)),
                          303, "", o.session, <<>>))
                    /\ pending' = (pending \ {r}) \cup {[r EXCEPT !.checked = TRUE]}
               ELSE /\ Respond(o)
                    /\ pending' = pending \ {r}
            /\ UNCHANGED <<now, nextToken>>

\* The bounds of SpecOverlap.
OverlapBounds ==
    /\ Len(accounts) <= OverlapMaxAccounts
    /\ nextToken <= OverlapMaxTokens + 1

OverlapNext ==
    \/ Receive
    \/ RunAddPayment
    \/ Index /\ OverlapBounds'
    \/ Login /\ OverlapBounds'
    \/ Logout /\ OverlapBounds'
    \/ AddAccount /\ OverlapBounds'
    \/ ToggleLock /\ OverlapBounds'
    \/ DeleteAccount /\ OverlapBounds'
    \/ Tick

SpecOverlap == Init /\ [][OverlapNext]_vars

---------------------------------------------------------------------------
(* C19 *)

\* A step that appends a payment to a record appends an amount that is at
\* most the record's remaining amount in the state the step starts from:
\* the check and the append of one request happen in one step, whatever
\* other requests are in flight.
C19_CheckedAtAppend ==
    Len(accounts') = Len(accounts) =>
        \A k \in 1..Len(accounts) :
            Len(accounts'[k].paid_amounts) = Len(accounts[k].paid_amounts) + 1 =>
                accounts'[k].paid_amounts[Len(accounts'[k].paid_amounts)]
                    <= accounts[k].total_amount - sum(accounts[k].paid_amounts)

\* Two requests in flight against one account, each within the remaining
\* amount and together above it, are not both admitted, whichever runs
\* first.
C19_NotBoth ==
    \A r1 \in pending, r2 \in pending :
        (/\ r1.conn # r2.conn
         /\ r1.account_index = r2.account_index
         /\ r1.account_index \in InRange
         /\ r1.amount + r2.amount > remaining_of(accounts[r1.account_index + 1])) =>
            LET o1 == add_payment(db, r1.account_index, r1.amount, r1.session_id, now)
                o2 == add_payment(o1.db, r2.account_index, r2.amount, r2.session_id, now)
            IN  ~(o1.status = 303 /\ o2.status = 303)

\* C19: a handler runs from its session resolution to its save in one step
\* of the event loop, so overlapping add_payment requests do not interleave
\* their check and their append: two payments whose sum exceeds the
\* remaining amount are never both admitted, and the cap
\* sum(paid_amounts) <= total_amount holds under every interleaving of
\* requests.
C19_AtomicHandlers ==
    /\ []C1_PaymentCap
    /\ []C19_NotBoth
    /\ [][C19_CheckedAtAppend]_vars

\* C19 witness: of two requests that overlapped, one has been admitted and
\* has used up the remaining amount; the other is still in flight, would
\* have been admitted before it, and is now answered 400.
C19_Witness ==
    \E r \in pending :
        /\ Len(accounts) = 1
        /\ r.account_index = 0
        /\ r.amount > 0
        /\ accounts[1].paid_amounts = <<r.amount>>
        /\ accounts[1].total_amount = r.amount
        /\ add_payment(db, 0, r.amount, r.session_id, now).status = 400

---------------------------------------------------------------------------
(* C20 *)

\* A non-empty text with no whitespace at either end.
Trimmed(s) ==
    /\ s # <<>>
    /\ s[1] \notin {" ", "\t", "\n"}
    /\ s[Len(s)] \notin {" ", "\t", "\n"}

\* A viewer session under the sentinel name, or a non-viewer session under a
\* trimmed name.
WellFormedSession(session) ==
    IF session.is_viewer
    THEN session.username = VIEWER_USERNAME
    ELSE Trimmed(session.username)

\* C20: every session, in memory and in sessions.json, is either a viewer
\* session whose username is the sentinel or a non-viewer session whose
\* username is non-empty without leading or trailing whitespace; every
\* account's manager is a non-empty trimmed text, and a created account
\* gets as manager the username of the non-viewer session that creates it.
C20_WellFormed ==
    /\ \A sid \in DOMAIN sessions : WellFormedSession(sessions[sid])
    /\ sessionsFile # <<>> =>
          \A sid \in DOMAIN sessionsFile[1] : WellFormedSession(sessionsFile[1][sid])
    /\ \A k \in 1..Len(accounts) : Trimmed(accounts[k].manager)
    /\ \A sid \in SessionIds, code \in FormCodes, total \in TotalAmounts :
          LET o == add_account(db, code, total, sid, now)
          IN  o.status = 303 =>
                 /\ sid \in DOMAIN sessions
                 /\ ~sessions[sid].is_viewer
                 /\ o.db.accounts[Len(o.db.accounts)].manager = sessions[sid].username

\* C20 witness: a viewer session and a session whose typed username " a "
\* was stored as "a" exist, and an account is managed by "a".
C20_Witness ==
    /\ \E sid \in DOMAIN sessions : sessions[sid].is_viewer
    /\ \E sid \in DOMAIN sessions :
          /\ ~sessions[sid].is_viewer
          /\ sessions[sid].username = <<"a">>
    /\ \E k \in 1..Len(accounts) : accounts[k].manager = <<"a">>

====
